---- MODULE Spec2Model ----
(***************************************************************************)
(* A model of the d20 visualizer's World (src/src/main.rs): the 20 roll    *)
(* counters, the winning and losing face, the layout derived from the      *)
(* canvas size, and the rasterizer World::draw.                            *)
(*                                                                         *)
(* The program has 20 faces and makes 10000 rolls per update; the model    *)
(* keeps the code's arithmetic and scales both numbers down (NumFaces,     *)
(* Rolls) so that the reachable states can be enumerated.                  *)
(***************************************************************************)
EXTENDS Integers, Sequences, FiniteSets, TLC

(***************************************************************************)
(* Bounds of the model.                                                    *)
(***************************************************************************)
\* faces of the die (roll_counts.len(); 20 in the program)
NumFaces == 3
\* rolls made by one update() (10000 in the program)
Rolls == 2
\* largest width and height handed to set_size in Spec
MaxWidth == 6
MaxHeight == 2
\* the canvas height of SpecTall, where a column holds TallHeight rows
TallHeight == 11

(***************************************************************************)
(* IEEE-754 binary64 arithmetic, as far as update() uses it (line 210):    *)
(* one division of two integers, one multiplication by an integer and one  *)
(* truncation.  A positive double is [m |-> <<d1, d2, d3, d4>>, e |-> e]   *)
(* and stands for 1.d1d2d3d4 * 2^e, the four limbs being the 52 fraction   *)
(* bits of its significand in radix 2^LimbBits; zero is F64Zero.  The      *)
(* operators are exact for operands below 2^LimbBits, which the bounds of  *)
(* the model keep.                                                         *)
(***************************************************************************)
\* the 52 explicit bits of a binary64 significand are four limbs of 13
LimbBits == 13

RECURSIVE Pow2(_)
Pow2(k) == IF k <= 0 THEN 1 ELSE 2 * Pow2(k - 1)

Radix == Pow2(LimbBits)

F64Zero == [m |-> <<>>, e |-> 0]
\* +infinity and NaN: what a division by 0.0 gives
F64Inf == [m |-> <<>>, e |-> 1]
F64NaN == [m |-> <<>>, e |-> 2]
F64Special(x) == x.m = <<>>

\* u64::MAX, which the model writes as the largest integer TLC has
U64Max == 2147483647

\* floor(log2(n)) for n >= 1
RECURSIVE Log2(_)
Log2(n) == IF n < 2 THEN 0 ELSE 1 + Log2(n \div 2)

\* the smallest k with n * 2^k >= d (for n >= 1)
RECURSIVE ShiftDown(_, _)
ShiftDown(n, d) == IF n >= d THEN 0 ELSE 1 + ShiftDown(2 * n, d)

\* round to nearest, ties to even: the significand 1.d1d2d3d4 * 2^e goes up
\* by one unit in the last place when the discarded tail is above one half,
\* or is one half and d4 is odd
F64Round(m, e, guard, sticky) ==
    IF ~(guard = 1 /\ (sticky \/ m[4] % 2 = 1)) THEN [m |-> m, e |-> e]
    ELSE LET c4 == IF m[4] + 1 = Radix THEN 1 ELSE 0
             c3 == IF m[3] + c4 = Radix THEN 1 ELSE 0
             c2 == IF m[2] + c3 = Radix THEN 1 ELSE 0
             c1 == IF m[1] + c2 = Radix THEN 1 ELSE 0
         IN  [m |-> <<(m[1] + c2) % Radix, (m[2] + c3) % Radix,
                      (m[3] + c4) % Radix, (m[4] + 1) % Radix>>,
              e |-> e + c1]

\* n as f64 / d as f64 for integers n, d >= 0: the long division of n by d,
\* scaled so that the quotient is in [1, 2), one limb at a time; x / 0.0 is
\* +infinity and 0.0 / 0.0 is NaN
F64Div(n, d) ==
    IF d = 0 THEN (IF n = 0 THEN F64NaN ELSE F64Inf)
    ELSE IF n = 0 THEN F64Zero
    ELSE LET down == ShiftDown(n, d)
             nn   == n * Pow2(down)
             up   == Log2(nn \div d)
             dd   == d * Pow2(up)
             r0   == nn - dd
             d1   == (r0 * Radix) \div dd
             r1   == (r0 * Radix) % dd
             d2   == (r1 * Radix) \div dd
             r2   == (r1 * Radix) % dd
             d3   == (r2 * Radix) \div dd
             r3   == (r2 * Radix) % dd
             d4   == (r3 * Radix) \div dd
             r4   == (r3 * Radix) % dd
         IN  F64Round(<<d1, d2, d3, d4>>, up - down,
                      (2 * r4) \div dd, (2 * r4) % dd # 0)

\* k as f64 * x for an integer k >= 0 (0.0 * infinity is NaN): the exact product t.p1p2p3p4 of k and
\* the significand, shifted right until t is 1, then rounded
F64MulInt(k, x) ==
    IF x = F64NaN THEN F64NaN
    ELSE IF x = F64Inf THEN (IF k = 0 THEN F64NaN ELSE F64Inf)
    ELSE IF k = 0 \/ x = F64Zero THEN F64Zero
    ELSE LET u4 == x.m[4] * k
             u3 == x.m[3] * k + u4 \div Radix
             u2 == x.m[2] * k + u3 \div Radix
             u1 == x.m[1] * k + u2 \div Radix
             t  == k + u1 \div Radix
             p  == <<u1 % Radix, u2 % Radix, u3 % Radix, u4 % Radix>>
             s  == Log2(t)
             lo == Pow2(s)
             hi == Pow2(LimbBits - s)
             shifted == <<(t % lo) * hi + p[1] \div lo,
                          (p[1] % lo) * hi + p[2] \div lo,
                          (p[2] % lo) * hi + p[3] \div lo,
                          (p[3] % lo) * hi + p[4] \div lo>>
             tail == p[4] % lo
         IN  IF s = 0 THEN [m |-> p, e |-> x.e]
             ELSE F64Round(shifted, x.e + s,
                           tail \div Pow2(s - 1), tail % Pow2(s - 1) # 0)

\* x as u64 for x >= 0 (a saturating cast: NaN gives 0, +infinity u64::MAX):
\* the integer part, that is the leading 1 and the first x.e bits of the
\* fraction
RECURSIVE IntegerPart(_, _, _)
IntegerPart(acc, limbs, bits) ==
    IF bits <= 0 THEN acc
    ELSE IF limbs = <<>> THEN IntegerPart(2 * acc, limbs, bits - 1)
    ELSE IF bits >= LimbBits
         THEN IntegerPart(acc * Radix + Head(limbs), Tail(limbs), bits - LimbBits)
         ELSE acc * Pow2(bits) + Head(limbs) \div Pow2(LimbBits - bits)

F64ToU64(x) ==
    IF x = F64Inf THEN U64Max
    ELSE IF F64Special(x) \/ x.e < 0 THEN 0
    ELSE IntegerPart(1, x.m, x.e)

(***************************************************************************)
(* The World (lines 15-24) and what the model adds to it.                  *)
(***************************************************************************)
VARIABLES
    roll_counts,       \* [u64; 20]: one counter per face, index 0 first
    winning_roll_key,  \* Option<usize>
    losing_roll_key,   \* Option<usize>
    width,             \* u32
    height,            \* u32
    column_width,      \* u32
    offset,            \* u32
    colors,            \* [[u8; 4]; 20]
    frame,             \* the byte buffer lent to draw
    panicked,          \* an arithmetic panic has ended the program
    updated,           \* history: some update() has returned
    last               \* history: the last operation and what it went through

\* A panic ends the program and the World with it: a state with panicked
\* set keeps the fields as the panic left them and has no successor.
world == <<roll_counts, winning_roll_key, losing_roll_key, width, height,
           column_width, offset, colors>>
vars == <<roll_counts, winning_roll_key, losing_roll_key, width, height,
          column_width, offset, colors, frame, panicked, updated, last>>

Faces == 0..(NumFaces - 1)
Widths == 0..MaxWidth
Heights == 0..MaxHeight
TallWidths == {NumFaces, 2 * NumFaces}
TallHeights == {TallHeight}

None == <<>>
Some(k) == <<k>>

Min(a, b) == IF a <= b THEN a ELSE b

\* World::new, lines 147-156: the palette; g and b grow by 9 per face
RECURSIVE PaletteLoop(_, _, _)
PaletteLoop(n, g, b) ==
    IF n = 0 THEN <<>>
    ELSE <<<<0, g + 9, b + 9, 255>>>> \o PaletteLoop(n - 1, g + 9, b + 9)

Palette == LET v == PaletteLoop(NumFaces, 0, 0) IN [i \in Faces |-> v[i + 1]]

\* set_size, line 176: (width as f64 / 20.).floor() as u32
ColumnWidth(w) == F64ToU64(F64Div(w, NumFaces))

\* set_size, line 177: width - self.column_width * 20 underflows iff negative
OffsetUnderflows(w, cw) == w < cw * NumFaces

\* a set_size that takes the whole remainder as the margin
OffsetWhole(w, cw) == w - cw * NumFaces

\* set_size, line 177
Offset(w, cw) == (w - cw * NumFaces) \div 2

\* a set_size that derives the margin from the width it had before
SetSizeStaleWidth(w, h) ==
    LET cw == ColumnWidth(w)
    IN  /\ width' = w
        /\ height' = h
        /\ column_width' = cw
        /\ offset' = (width - cw * NumFaces) \div 2

\* the assignments of set_size (lines 173-178)
SetSizeFields(w, h) ==
    LET cw == ColumnWidth(w)
    IN  /\ width' = w
        /\ height' = h
        /\ column_width' = cw
        /\ offset' = IF OffsetUnderflows(w, cw) THEN offset ELSE Offset(w, cw)

\* World::new(width, height), lines 146-171
New(W, H) ==
    \E w \in W, h \in H :
        /\ roll_counts = [i \in Faces |-> 0]
        /\ winning_roll_key = None
        /\ losing_roll_key = None
        /\ width = w
        /\ height = h
        /\ column_width = ColumnWidth(w)
        /\ offset = Offset(w, ColumnWidth(w))
        /\ colors = Palette
        /\ frame = <<>>
        /\ panicked = OffsetUnderflows(w, ColumnWidth(w))
        /\ updated = FALSE
        /\ last = [op |-> "new"]

Init == New(Widths, Heights)

\* set_size(width, height), lines 173-178
SetSizeIn(W, H) ==
    \E w \in W, h \in H :
        /\ ~panicked
        /\ SetSizeFields(w, h)
        /\ panicked' = OffsetUnderflows(w, ColumnWidth(w))
        /\ last' = [op |-> "set_size", w |-> w, h |-> h]
        /\ UNCHANGED <<roll_counts, winning_roll_key, losing_roll_key, colors,
                       frame, updated>>

SetSize == SetSizeIn(Widths, Heights)

\* a reset that starts the World over, keys included
ResetKeysToo ==
    /\ ~panicked
    /\ roll_counts' = [i \in Faces |-> 0]
    /\ winning_roll_key' = None
    /\ losing_roll_key' = None
    /\ last' = [op |-> "reset"]
    /\ UNCHANGED <<width, height, column_width, offset, colors, frame,
                   panicked, updated>>

\* the F5 handler, lines 86-90
Reset ==
    /\ ~panicked
    /\ roll_counts' = [i \in Faces |-> 0]
    /\ last' = [op |-> "reset"]
    /\ UNCHANGED <<winning_roll_key, losing_roll_key, width, height,
                   column_width, offset, colors, frame, panicked, updated>>

(***************************************************************************)
(* update(), lines 181-214.                                                *)
(***************************************************************************)
\* lines 183-190: one counter goes up by one per roll; rolls[k] is in 1..20
RECURSIVE Accumulate(_, _, _)
Accumulate(counts, rolls, k) ==
    IF k > Len(rolls) THEN counts
    ELSE Accumulate([counts EXCEPT ![rolls[k] - 1] = @ + 1], rolls, k + 1)

\* a scan that lets a later face take over on a tie
RECURSIVE ScanLastOnTie(_, _, _)
ScanLastOnTie(counts, i, st) ==
    IF i = NumFaces THEN st
    ELSE LET hi == counts[i] >= st.max_found
             lo == counts[i] <= st.min_found
         IN  ScanLastOnTie(counts, i + 1,
                  [max_found |-> IF hi THEN counts[i] ELSE st.max_found,
                   winning   |-> IF hi THEN Some(i) ELSE st.winning,
                   min_found |-> IF lo THEN counts[i] ELSE st.min_found,
                   losing    |-> IF lo THEN Some(i) ELSE st.losing])

\* lines 192-203: the scan for the extremes, from face i on; st carries
\* min_found, max_found and the two keys
RECURSIVE Scan(_, _, _)
Scan(counts, i, st) ==
    IF i = NumFaces THEN st
    ELSE LET hi == counts[i] > st.max_found
             lo == counts[i] < st.min_found
         IN  Scan(counts, i + 1,
                  [max_found |-> IF hi THEN counts[i] ELSE st.max_found,
                   winning   |-> IF hi THEN Some(i) ELSE st.winning,
                   min_found |-> IF lo THEN counts[i] ELSE st.min_found,
                   losing    |-> IF lo THEN Some(i) ELSE st.losing])

ScanStart == [max_found |-> 0, winning |-> winning_roll_key,
              min_found |-> U64Max, losing |-> losing_roll_key]

\* line 205
MaxAllowed == column_width * height

\* lines 207-208; the remainder panics when column_width is 0
Adjustment(max_found) ==
    LET adjustment == max_found - MaxAllowed
    IN  adjustment - (adjustment % column_width)

\* line 210: adjustment as f64 * (*count as f64 / max_allowed as f64)
RollAdjustment(adjustment, count, max_allowed) ==
    F64MulInt(adjustment, F64Div(count, max_allowed))

\* a reduction that is not clamped to the count
ReducedUnclamped(adjustment, count, max_allowed) ==
    count - F64ToU64(RollAdjustment(adjustment, count, max_allowed))

\* line 211: *count -= (roll_adjustment as u64).min(*count)
Reduced(adjustment, count, max_allowed) ==
    count - Min(F64ToU64(RollAdjustment(adjustment, count, max_allowed)), count)

\* lines 206-213, for column_width > 0
Normalize(counts, max_found) ==
    IF max_found > MaxAllowed
    THEN LET adjustment == Adjustment(max_found)
         IN  [i \in Faces |-> Reduced(adjustment, counts[i], MaxAllowed)]
    ELSE counts

Update ==
    \E rolls \in [1..Rolls -> 1..NumFaces] :
        LET counts == Accumulate(roll_counts, rolls, 1)
            st     == Scan(counts, 0, ScanStart)
            panics == st.max_found > MaxAllowed /\ column_width = 0
        IN  /\ ~panicked
            /\ winning_roll_key' = st.winning
            /\ losing_roll_key' = st.losing
            /\ roll_counts' = IF panics THEN counts
                              ELSE Normalize(counts, st.max_found)
            /\ panicked' = panics
            /\ updated' = (updated \/ ~panics)
            /\ last' = [op |-> "update", rolled |-> counts]
            /\ UNCHANGED <<width, height, column_width, offset, colors, frame>>

Next == Update \/ SetSize \/ Reset

Spec == Init /\ [][Next]_vars

(***************************************************************************)
(* The same World on a canvas TallHeight rows high, where the counts grow  *)
(* large enough for the rounding of line 210 to show.  Every size is one   *)
(* with width >= NumFaces and height >= 1.                                 *)
(***************************************************************************)
InitTall == New(TallWidths, TallHeights)

SetSizeTall == SetSizeIn(TallWidths, TallHeights)

NextTall == Update \/ SetSizeTall \/ Reset

SpecTall == InitTall /\ [][NextTall]_vars

(***************************************************************************)
(* draw(frame), lines 219-252.  Pixel i is the i-th chunk of four bytes.   *)
(***************************************************************************)
Background == <<51, 51, 51, 255>>
WinColor == <<51, 204, 51, 255>>
LoseColor == <<204, 51, 51, 255>>

\* frame.chunks_exact_mut(4), line 220: the whole chunks of the buffer
Chunks(buf) == Len(buf) \div 4

\* lines 221-222: i % self.width panics for width 0, and
\* self.height - 1 - (i / self.width) underflows below row 0
PixelPanics(i) == width = 0 \/ height - 1 - (i \div width) < 0

\* lines 224-229
RollKey(i) ==
    LET total_x == i % width
        cutoff  == offset + column_width * NumFaces
    IN  IF total_x >= offset /\ total_x < cutoff
        THEN Some((total_x - offset) \div column_width)
        ELSE None

\* a rank that starts at 0
HighlightedFromZero(i) ==
    LET total_x  == i % width
        y        == height - 1 - (i \div width)
        roll_key == RollKey(i)
    IN  IF roll_key # None
        THEN LET roll_x == total_x - offset - roll_key[1] * column_width
                 value  == y * column_width + roll_x
             IN  value <= roll_counts[roll_key[1]]
        ELSE FALSE

\* lines 230-236
Highlighted(i) ==
    LET total_x  == i % width
        y        == height - 1 - (i \div width)
        roll_key == RollKey(i)
    IN  IF roll_key # None
        THEN LET roll_x == total_x - offset - roll_key[1] * column_width
                 value  == y * column_width + roll_x + 1
             IN  value <= roll_counts[roll_key[1]]
        ELSE FALSE

\* a colour choice that tests the losing face first
RgbaLoseFirst(i) ==
    IF Highlighted(i)
    THEN IF RollKey(i) = losing_roll_key THEN LoseColor
         ELSE IF RollKey(i) = winning_roll_key THEN WinColor
         ELSE colors[RollKey(i)[1]]
    ELSE Background

\* lines 238-248
Rgba(i) ==
    IF Highlighted(i)
    THEN IF RollKey(i) = winning_roll_key THEN WinColor
         ELSE IF RollKey(i) = losing_roll_key THEN LoseColor
         ELSE colors[RollKey(i)[1]]
    ELSE Background

\* the chunks before the first one that panics: all of them if none does
Written(buf) ==
    LET failing == {i \in 0..(Chunks(buf) - 1) : PixelPanics(i)}
    IN  {i \in 0..(Chunks(buf) - 1) : \A j \in failing : i < j}

\* line 250, for every chunk: pixel.copy_from_slice(&rgba)
Drawn(buf) ==
    LET written == Written(buf)
        pixels  == [i \in written |-> Rgba(i)]
    IN  [j \in 1..Len(buf) |->
            IF (j - 1) \div 4 \in written
            THEN pixels[(j - 1) \div 4][((j - 1) % 4) + 1]
            ELSE buf[j]]

Draw ==
    /\ ~panicked
    /\ frame' = Drawn(frame)
    /\ panicked' = \E i \in 0..(Chunks(frame) - 1) : PixelPanics(i)
    /\ last' = [op |-> "draw"]
    /\ UNCHANGED <<roll_counts, winning_roll_key, losing_roll_key, width,
                   height, column_width, offset, colors, updated>>

(***************************************************************************)
(* draw as a function of the World: every World of the shape the program   *)
(* can have, within the bounds, with a buffer of 4 * width * height bytes  *)
(* that holds either zeros or 255s.  draw compares a count with ranks of   *)
(* at most column_width * height only, so the counts range up to one more  *)
(* than that.                                                              *)
(***************************************************************************)
\* the keys are unset until the first update, which is also the first time
\* a count leaves 0; the two keys are one face only when all counts agree
Plausible ==
    /\ (winning_roll_key = None) = (losing_roll_key = None)
    /\ winning_roll_key = None => \A i \in Faces : roll_counts[i] = 0
    /\ winning_roll_key # None /\ winning_roll_key = losing_roll_key
           => \A i, j \in Faces : roll_counts[i] = roll_counts[j]

InitDraw ==
    /\ \E w \in Widths, h \in Heights :
        /\ width = w
        /\ height = h
        /\ column_width = ColumnWidth(w)
        /\ offset = Offset(w, ColumnWidth(w))
        /\ frame \in {[j \in 1..(4 * w * h) |-> 0], [j \in 1..(4 * w * h) |-> 255]}
        /\ roll_counts \in [Faces -> 0..(ColumnWidth(w) * h + 1)]
    /\ winning_roll_key \in {None} \cup {Some(k) : k \in Faces}
    /\ losing_roll_key \in {None} \cup {Some(k) : k \in Faces}
    /\ Plausible
    /\ colors = Palette
    /\ panicked = FALSE
    /\ updated = (winning_roll_key # None)
    /\ last = [op |-> "new"]

NextDraw == Draw

SpecDraw == InitDraw /\ [][NextDraw]_vars

(***************************************************************************)
(* What the claims speak of.                                               *)
(***************************************************************************)
RECURSIVE SumUpTo(_, _)
SumUpTo(counts, n) == IF n = 0 THEN 0 ELSE counts[n - 1] + SumUpTo(counts, n - 1)
Sum(counts) == SumUpTo(counts, NumFaces)

IsMax(counts, v) == (\E i \in Faces : counts[i] = v) /\ \A i \in Faces : counts[i] <= v
IsMin(counts, v) == (\E i \in Faces : counts[i] = v) /\ \A i \in Faces : counts[i] >= v

\* the smallest index at which counts attains its maximum, its minimum
FirstMax(counts) == CHOOSE i \in Faces :
    /\ IsMax(counts, counts[i])
    /\ \A j \in Faces : j < i => counts[j] < counts[i]
FirstMin(counts) == CHOOSE i \in Faces :
    /\ IsMin(counts, counts[i])
    /\ \A j \in Faces : j < i => counts[j] > counts[i]

AfterUpdate == last.op = "update" /\ ~panicked

\* C1: immediately after an update() that returns with column_width *
\* canvas_height > 0, every count is >= 0 and at most column_width *
\* canvas_height.
C1_WithinCapacity ==
    (AfterUpdate /\ MaxAllowed > 0)
        => \A i \in Faces : roll_counts[i] >= 0 /\ roll_counts[i] <= MaxAllowed

\* C2: for every width >= 20, after set_size the layout has offset + column_width * 20 <=
\* width and offset < column_width.
C2_MarginBelowColumn ==
    (last.op = "set_size" /\ width >= NumFaces /\ ~panicked)
        => /\ offset + column_width * NumFaces <= width
           /\ offset < column_width

\* C2, as amended: for every width >= 20, column_width = floor(width / 20),
\* offset + column_width * 20 <= width, and twice the offset is at most the
\* remainder width - column_width * 20, which is below 20.
C2_MarginHalvesRemainder ==
    (width >= NumFaces /\ ~panicked)
        => /\ column_width * NumFaces <= width
           /\ width < (column_width + 1) * NumFaces
           /\ offset + column_width * NumFaces <= width
           /\ 2 * offset <= width - column_width * NumFaces
           /\ 2 * offset + 1 >= width - column_width * NumFaces

\* a width >= 20 whose margin is as wide as a column
C2_Witness ==
    last.op = "set_size" /\ width >= NumFaces /\ offset >= 1 /\ offset >= column_width

\* C3: with a stored width > 0 and height > 0, no operation ends in an
\* arithmetic failure.
C3_NoArithmeticFailure == (width > 0 /\ height > 0) => ~panicked

\* C4: after every update(), the winning face is the smallest index at which
\* the counts as accumulated (before normalization) attain their maximum, and
\* the losing face the smallest index at which they attain their minimum;
\* both are face 0 when all counts are equal.
C4_FirstExtremes ==
    last.op = "update"
        => /\ winning_roll_key = Some(FirstMax(last.rolled))
           /\ losing_roll_key = Some(FirstMin(last.rolled))
           /\ (\A i, j \in Faces : last.rolled[i] = last.rolled[j])
                  => winning_roll_key = Some(0) /\ losing_roll_key = Some(0)

\* an update after which all faces were level
C4_Witness ==
    /\ AfterUpdate
    /\ \A i, j \in Faces : last.rolled[i] = last.rolled[j]
    /\ winning_roll_key = Some(0)
    /\ losing_roll_key = Some(0)

\* C5: within an update(), accumulation raises the sum of the counts by
\* exactly the number of rolls and lowers no counter; normalization raises no
\* counter, hence not the sum, and takes no counter below 0.
C5_AccumulateThenShrink ==
    [][last'.op = "update"
          => /\ Sum(last'.rolled) = Sum(roll_counts) + Rolls
             /\ \A i \in Faces : last'.rolled[i] >= roll_counts[i]
             /\ \A i \in Faces : roll_counts'[i] <= last'.rolled[i]
             /\ \A i \in Faces : roll_counts'[i] >= 0
             /\ Sum(roll_counts') <= Sum(last'.rolled)]_vars

\* an update whose normalization took something off a counter and left
\* something on it
C5_Witness ==
    /\ AfterUpdate
    /\ \E i \in Faces : 0 < roll_counts[i] /\ roll_counts[i] < last.rolled[i]

\* C6: while the program runs, the winning and the losing face are None
\* exactly as long as no update() has returned.
C6_NoneUntilFirstUpdate ==
    ~panicked
        => /\ (winning_roll_key = None) = ~updated
           /\ (losing_roll_key = None) = ~updated

\* a reset after an update, with both keys still set
C6_Witness ==
    /\ updated
    /\ last.op = "reset"
    /\ winning_roll_key # None
    /\ losing_roll_key # None

\* C7: reset zeroes every count and leaves the keys, the layout and the
\* palette alone; set_size leaves the counts, the keys and the palette alone,
\* and a second set_size with the same arguments changes nothing.
C7_Frames ==
    [][/\ last'.op = "reset"
            => /\ \A i \in Faces : roll_counts'[i] = 0
               /\ UNCHANGED <<winning_roll_key, losing_roll_key, width, height,
                              column_width, offset, colors>>
       /\ last'.op = "set_size"
            => UNCHANGED <<roll_counts, winning_roll_key, losing_roll_key, colors>>
       /\ (last.op = "set_size" /\ last' = last) => world' = world]_vars

\* a set_size on a World whose counts and keys are set
C7_Witness ==
    /\ last.op = "set_size"
    /\ winning_roll_key # None
    /\ \E i \in Faces : roll_counts[i] > 0

\* C10: once an update() has returned, the winning face holds the largest
\* count and the losing face the smallest, in every later state.
C10_KeysAreExtremes ==
    (updated /\ ~panicked)
        => /\ IsMax(roll_counts, roll_counts[winning_roll_key[1]])
           /\ IsMin(roll_counts, roll_counts[losing_roll_key[1]])

\* the four bytes of pixel i of the frame
PixelAt(i) == <<frame[4 * i + 1], frame[4 * i + 2], frame[4 * i + 3], frame[4 * i + 4]>>

AfterDraw == last.op = "draw" /\ ~panicked /\ width >= NumFaces

\* the colour the priority order gives pixel i: gray outside the columns or
\* above the bar, else green on the winning face, else red on the losing
\* face, else the face's palette colour
PriorityColor(i) ==
    LET x     == i % width
        y     == height - 1 - (i \div width)
        face  == (x - offset) \div column_width
        bar_x == x - offset - face * column_width
        rank  == y * column_width + bar_x + 1
    IN  IF x < offset \/ x >= offset + NumFaces * column_width THEN Background
        ELSE IF rank > roll_counts[face] THEN Background
        ELSE IF winning_roll_key = Some(face) THEN WinColor
        ELSE IF losing_roll_key = Some(face) THEN LoseColor
        ELSE Palette[face]

\* C8: with width >= 20 and a buffer of 4 * width * height bytes, draw gives
\* every pixel the colour of the priority order, changes no field of the
\* World, and a second draw leaves the bytes as they are.
C8_PriorityColors ==
    /\ [](AfterDraw => /\ Len(frame) = 4 * width * height
                       /\ \A i \in 0..(width * height - 1) : PixelAt(i) = PriorityColor(i))
    /\ [][last'.op = "draw" => world' = world]_vars
    /\ [][(last.op = "draw" /\ last'.op = "draw") => frame' = frame]_vars

\* a frame in which one face is both winner and loser and is drawn green,
\* beside a bar in its palette colour and some background
C8_Witness ==
    /\ AfterDraw
    /\ winning_roll_key # None
    /\ winning_roll_key = losing_roll_key
    /\ \E i, j, k \in 0..(width * height - 1) :
          /\ PixelAt(i) = WinColor
          /\ PixelAt(j) \in {Palette[f] : f \in Faces}
          /\ PixelAt(k) = Background

\* the pixels of the column of face f, as <<x, row>> with row 0 the top row
\* of the buffer
Column(f) ==
    {p \in (0..(width - 1)) \X (0..(height - 1)) :
        offset + f * column_width <= p[1] /\ p[1] < offset + (f + 1) * column_width}

Lit(p) == PixelAt(p[2] * width + p[1]) # Background

\* C9: with width >= 20 and height >= 1, the column of face f shows
\* min(count, column_width * height) highlighted pixels, filled from the
\* bottom row up and from the left within a row.
C9_ColumnFill ==
    (AfterDraw /\ height >= 1)
        => \A f \in Faces :
             /\ Cardinality({p \in Column(f) : Lit(p)})
                    = Min(roll_counts[f], column_width * height)
             /\ \A p, q \in Column(f) :
                    (Lit(p) /\ (q[2] > p[2] \/ (q[2] = p[2] /\ q[1] < p[1]))) => Lit(q)

\* a frame with an empty column, a full column and a column whose upper row
\* is filled in part
C9_Witness ==
    /\ AfterDraw
    /\ height >= 2
    /\ column_width >= 2
    /\ \E f, g, k \in Faces :
          /\ roll_counts[f] = 0
          /\ roll_counts[g] >= column_width * height
          /\ roll_counts[k] = column_width * (height - 1) + 1

====
